---------------------------- MODULE Spec2Model ----------------------------
(***************************************************************************)
(* Visual-Product-Matcher: the feature extractor, the weighted cosine      *)
(* scorer and the ranker of src/backend/similarity.py.                     *)
(*                                                                         *)
(* Python floats are binary floating point numbers, rounded to nearest     *)
(* (ties to even) after every operation.  They are modelled here as pairs  *)
(* <<m, e>> of value m * 2^e whose significand m has MantBits bits         *)
(* (53 in CPython); the exponent is unbounded, so overflow, underflow,     *)
(* infinities and NaN are outside the model.                               *)
(***************************************************************************)
EXTENDS Integers, Sequences, FiniteSets, TLC

\* Number of significand bits of a float of the model (CPython: 53).
MantBits == 4

(***************************************************************************)
(* Floating point arithmetic (CPython float: IEEE 754, round half to even) *)
(***************************************************************************)
Abs(n) == IF n < 0 THEN -n ELSE n

Sgn(n) == IF n < 0 THEN -1 ELSE IF n > 0 THEN 1 ELSE 0

\* Number of bits of the positive integer n.
BitLen(n) == CHOOSE k \in 1..30 : 2^(k-1) <= n /\ n < 2^k

FZero == <<0, 0>>

\* The float nearest to N * 2^E, ties to the even significand.
Round(N, E) ==
    IF N = 0 THEN FZero
    ELSE LET a == Abs(N)
             L == BitLen(a)
         IN IF L <= MantBits
            THEN <<Sgn(N) * a * 2^(MantBits - L), E - (MantBits - L)>>
            ELSE LET k  == L - MantBits
                     q  == a \div 2^k
                     r  == a % 2^k
                     h  == 2^(k-1)
                     q2 == IF r > h \/ (r = h /\ q % 2 = 1) THEN q + 1 ELSE q
                 IN IF q2 = 2^MantBits
                    THEN <<Sgn(N) * 2^(MantBits-1), E + k + 1>>
                    ELSE <<Sgn(N) * q2, E + k>>

\* float(n) of an integer n.
FInt(n) == Round(n, 0)

\* x * y.  A product with a zero factor is 0.0.
FMul(x, y) ==
    IF y[1] = 0 \/ x[1] = 0 THEN FZero
    ELSE Round(x[1] * y[1], x[2] + y[2])

\* x + y.  An addend below a quarter of the other's last place is absorbed.
FAdd(x, y) ==
    IF x[1] = 0 THEN y
    ELSE IF y[1] = 0 THEN x
    ELSE LET big   == IF x[2] >= y[2] THEN x ELSE y
             small == IF x[2] >= y[2] THEN y ELSE x
             d     == big[2] - small[2]
         IN IF d > MantBits + 1 THEN big
            ELSE Round(big[1] * 2^d + small[1], small[2])

\* x / y for y # 0, correctly rounded (the remainder is kept as a sticky bit).
FDiv(x, y) ==
    IF x[1] = 0 THEN FZero
    ELSE LET num == Abs(x[1]) * 2^(MantBits + 2)
             den == Abs(y[1])
             q   == num \div den
             st  == IF num % den = 0 THEN 0 ELSE 1
         IN Round(Sgn(x[1]) * Sgn(y[1]) * (2 * q + st),
                  x[2] - y[2] - (MantBits + 2) - 1)

\* math.sqrt(x) for x >= 0, correctly rounded.
FSqrt(x) ==
    IF x[1] = 0 THEN FZero
    ELSE LET s  == IF (x[2] - (MantBits + 3)) % 2 = 0
                   THEN MantBits + 3 ELSE MantBits + 4
             N  == x[1] * 2^s
             r  == CHOOSE t \in 0..2^(MantBits + 2) : t * t <= N /\ N < (t+1) * (t+1)
             st == IF r * r = N THEN 0 ELSE 1
         IN Round(2 * r + st, ((x[2] - s) \div 2) - 1)

\* x < y
FLess(x, y) ==
    IF x[1] <= 0 /\ y[1] >= 0 THEN x # y
    ELSE IF x[1] >= 0 /\ y[1] <= 0 THEN FALSE
    ELSE IF x[1] > 0 THEN x[2] < y[2] \/ (x[2] = y[2] /\ x[1] < y[1])
    ELSE x[2] > y[2] \/ (x[2] = y[2] /\ x[1] < y[1])

\* x >= y
FGeq(x, y) == ~FLess(x, y)

\* The decimal literal n/d of the source, as the float nearest to it.
FLit(n, d) == FDiv(FInt(n), FInt(d))


(***************************************************************************)
(* Bounds of the model                                                     *)
(***************************************************************************)
\* Vector entries are the floats nearest to 0/10, 1/10, ..., MaxVal/10.
MaxVal == 3

\* The 0-based vector indices that may hold a non-zero entry: one of the
\* RGB statistics, the brightness and the aspect ratio.
ProbeIdx == {0, 21, 31}

\* The catalog holds at most MaxProducts products.
MaxProducts == 3

\* max_results ranges over -MaxResults..MaxResults.
MaxResults == 2

\* Images that need no thumbnail have sides in 0..MaxSide.
MaxSide == 4

\* Sides of the images that exceed the thumbnail size.
LargeSides == {300, 448}

VARIABLES
    sim_query,          \* calculate_enhanced_similarity: query_embedding
    sim_product,        \* calculate_enhanced_similarity: product_embedding
    sim_result,         \* calculate_enhanced_similarity: the returned float
    sim_raised,         \* whether its except branch ran
    sim_done,           \* whether the call has returned
    product_database,   \* the loaded catalog
    query_embedding,    \* find_similar_products: query_embedding
    min_similarity,     \* find_similar_products: min_similarity
    max_results,        \* find_similar_products: max_results
    similarities,       \* find_similar_products: the returned list
    find_raised,        \* whether find_similar_products raised
    find_done,          \* whether the call has returned
    image,              \* the caller's PIL image object
    image_data,         \* generate_query_embedding: the uploaded bytes
    features,           \* the list returned by the extraction
    extract_raised,     \* whether an except branch produced the result
    extract_done,       \* whether the call has returned
    image_path,         \* the picture stored in the catalog's image file
    catalog_features,   \* the list the catalog builder returned for it
    build_done,         \* whether the builder's call has returned
    requests,           \* the search request of each client
    pc,                 \* where each client's handler stands
    responses,          \* the HTTP response each client got
    pinecone_index,      \* pinecone_service.index: whether it is set
    rng,                \* legacy module: the process-wide np.random state
    worker_bytes,       \* legacy module: each worker's image_data
    worker_pc,          \* legacy module: each worker's position in the call
    worker_features,    \* legacy module: each worker's features list
    rgb_image,          \* extraction: the local image after preprocessing
    cos_result,         \* calculate_cosine_similarity: the returned float
    cos_raised,         \* whether its except branch ran
    cos_done,           \* whether the call has returned
    edge_density,       \* extraction: edge_pixel_count / len(rgb_pixels)
    local_variances,    \* extraction: len(local_variances)
    hist_values,        \* simple_histogram: values
    hist,               \* simple_histogram: the returned counts
    hist_norm,          \* the counts divided by the number of pixels
    hist_done,          \* whether the call has returned
    pinecone_client,    \* pinecone_service.pc: whether it is set
    pinecone_model,     \* pinecone_service.model: whether it is set
    initialize_result,  \* what the last initialize() returned
    health_response,    \* the last answer of /health
    categories_response \* the last answer of /categories

simVars  == <<sim_query, sim_product, sim_result, sim_raised, sim_done,
              cos_result, cos_raised, cos_done>>
findVars == <<product_database, query_embedding, min_similarity, max_results,
              similarities, find_raised, find_done>>
extractVars == <<image, image_data, features, extract_raised, extract_done,
                 rgb_image, edge_density, local_variances>>
buildVars == <<image_path, catalog_features, build_done>>
serverVars == <<requests, pc, responses, pinecone_index>>
legacyVars == <<rng, worker_bytes, worker_pc, worker_features>>
histVars == <<hist_values, hist, hist_norm, hist_done>>
serviceVars == <<pinecone_client, pinecone_model, initialize_result,
                 health_response, categories_response>>
vars == <<simVars, findVars, extractVars, buildVars, serverVars, legacyVars,
          histVars, serviceVars>>

(***************************************************************************)
(* calculate_enhanced_similarity                                           *)
(***************************************************************************)
Min(a, b) == IF a <= b THEN a ELSE b

Max(a, b) == IF a >= b THEN a ELSE b

\* The length of the weight table: weights = [1.0] * 50.
NumWeights == 50

\* The weight the source assigns to the 0-based index i; the assignments
\* are those of the source, the later one winning.
WeightOf(i) ==
    IF i = 31 THEN FInt(8)
    ELSE IF i \in 46..49 THEN FLit(11, 2)
    ELSE IF i \in 43..45 THEN FInt(6)
    ELSE IF i \in 41..42 THEN FInt(4)
    ELSE IF i \in 33..40 THEN FInt(5)
    ELSE IF i \in 23..32 THEN FLit(1, 10)
    ELSE IF i \in 21..22 THEN FLit(1, 5)
    ELSE IF i \in 6..20 THEN FLit(1, 10)
    ELSE IF i \in 0..5 THEN FLit(1, 20)
    ELSE FInt(1)

\* The weight table after the assignments: a list of 50 floats.
weights == [i \in 1..NumWeights |-> WeightOf(i - 1)]

\* One term w * a * b of the weighted sums: Python evaluates (w * a) * b.
WeightedTerm(w, a, b) == FMul(FMul(w, a), b)

\* sum(...) adds the terms to 0 from left to right; acc is the total of the
\* terms before the i-th, total the one with the i-th added.  (The
\* comparison with 0.0 changes no value: it has the running total evaluated
\* at every step.)
RECURSIVE WeightedSumFrom(_, _, _, _, _)
RECURSIVE WeightedSumStep(_, _, _, _, _)
WeightedSumStep(xs, ys, i, n, total) ==
    IF total = FZero THEN WeightedSumFrom(xs, ys, i + 1, n, FZero)
    ELSE WeightedSumFrom(xs, ys, i + 1, n, total)

WeightedSumFrom(xs, ys, i, n, acc) ==
    IF i > n THEN acc
    ELSE WeightedSumStep(xs, ys, i, n,
             FAdd(acc, WeightedTerm(WeightOf(i - 1), xs[i], ys[i])))

\* sum(w * a * b for w, a, b in zip(weights, xs, ys)), over the common
\* prefix of the three lists.
WeightedDot(xs, ys) ==
    WeightedSumFrom(xs, ys, 1, Min(NumWeights, Min(Len(xs), Len(ys))), FZero)

\* Mutant of WeightedMagnitude: the square root is not taken.
WeightedMagnitudeSquared(xs) == WeightedDot(xs, xs)

\* math.sqrt(sum(w * a * a for w, a in zip(weights, xs)))
WeightedMagnitude(xs) == FSqrt(WeightedDot(xs, xs))

\* The first guard: the lists differ in length or are not 50 long.
WrongLength(q, p) == Len(q) # Len(p) \/ Len(q) # 50

\* Mutant of MagnitudeIsZero: only the first magnitude is tested.
MagnitudeIsZeroFirstOnly(m1, m2) == m1 = FZero

\* The second guard: weighted_magnitude1 == 0 or weighted_magnitude2 == 0.
MagnitudeIsZero(m1, m2) == m1 = FZero \/ m2 = FZero

\* weighted_dot_product / divisor: [exc |-> TRUE] when it raises (the
\* division by a zero product is a ZeroDivisionError), else the quotient.
WeightedQuotient(weighted_dot_product, divisor) ==
    IF divisor = FZero THEN [exc |-> TRUE, val |-> FZero]
    ELSE [exc |-> FALSE, val |-> FDiv(weighted_dot_product, divisor)]

\* The zero guard and the division that follows it.
SimilarityFrom(weighted_dot_product, weighted_magnitude1, weighted_magnitude2) ==
    IF MagnitudeIsZero(weighted_magnitude1, weighted_magnitude2)
    THEN [exc |-> FALSE, val |-> FZero]
    ELSE WeightedQuotient(weighted_dot_product,
                          FMul(weighted_magnitude1, weighted_magnitude2))

\* The body of the try block: whether it raises, and the float it returns.
EnhancedSimilarityTry(q, p) ==
    IF WrongLength(q, p) THEN [exc |-> FALSE, val |-> FZero]
    ELSE SimilarityFrom(WeightedDot(q, p), WeightedMagnitude(q),
                        WeightedMagnitude(p))

\* except Exception: return 0.0
ValueOrZero(r) == IF r.exc THEN FZero ELSE r.val

calculate_enhanced_similarity(q, p) == ValueOrZero(EnhancedSimilarityTry(q, p))

(***************************************************************************)
(* calculate_cosine_similarity: the unweighted scorer.                     *)
(***************************************************************************)
\* sum(a * b for a, b in zip(xs, ys)) from the i-th pair on, acc being the
\* total of the pairs before it, total the one with the i-th added.  (The
\* comparison with 0.0 changes no value: it has the running total evaluated
\* at every step.)
RECURSIVE PlainSumFrom(_, _, _, _, _)
RECURSIVE PlainSumStep(_, _, _, _, _)
PlainSumStep(xs, ys, i, n, total) ==
    IF total = FZero THEN PlainSumFrom(xs, ys, i + 1, n, FZero)
    ELSE PlainSumFrom(xs, ys, i + 1, n, total)

PlainSumFrom(xs, ys, i, n, acc) ==
    IF i > n THEN acc
    ELSE PlainSumStep(xs, ys, i, n, FAdd(acc, FMul(xs[i], ys[i])))

\* dot_product: zip stops at the end of the shorter list.
DotProduct(xs, ys) == PlainSumFrom(xs, ys, 1, Min(Len(xs), Len(ys)), FZero)

\* math.sqrt(sum(a * a for a in xs)), over the whole list.
Magnitude(xs) == FSqrt(PlainSumFrom(xs, xs, 1, Len(xs), FZero))

\* if magnitude1 == 0 or magnitude2 == 0
CosineZeroGuard(magnitude1, magnitude2) ==
    magnitude1 = FZero \/ magnitude2 = FZero

\* The guard and dot_product / (magnitude1 * magnitude2); the division by
\* a zero product raises ZeroDivisionError.
CosineFrom(dot_product, magnitude1, magnitude2) ==
    IF CosineZeroGuard(magnitude1, magnitude2)
    THEN [exc |-> FALSE, val |-> FZero]
    ELSE WeightedQuotient(dot_product, FMul(magnitude1, magnitude2))

\* The body of the try block: whether it raises, and the float it returns.
CosineSimilarityTry(e1, e2) ==
    CosineFrom(DotProduct(e1, e2), Magnitude(e1), Magnitude(e2))

\* except Exception: return 0.0
calculate_cosine_similarity(e1, e2) == ValueOrZero(CosineSimilarityTry(e1, e2))

(***************************************************************************)
(* Inputs of the scorer                                                    *)
(***************************************************************************)
Elem(k) == FLit(k, 10)

\* The list of n floats holding Elem(f[i]) at each probe index i and 0.0
\* elsewhere.
MkVec(n, f) ==
    [i \in 1..n |-> IF (i - 1) \in DOMAIN f THEN Elem(f[i - 1]) ELSE FZero]

Vectors50 == {MkVec(50, f) : f \in [ProbeIdx -> 0..MaxVal]}

\* Lists that are not 50 long: empty, one short, one long.
OddVectors == {MkVec(n, [i \in ProbeIdx |-> 1]) : n \in {0, 49, 51}}

ScoreVectors == Vectors50 \cup OddVectors

\* A Python value that is None or a list of floats.
PyNone == [isnone |-> TRUE, list |-> <<>>]

PyList(v) == [isnone |-> FALSE, list |-> v]

\* bool(x): None and the empty list are falsy.
Truthy(x) == ~x.isnone /\ Len(x.list) > 0

(***************************************************************************)
(* Inputs of the ranker                                                    *)
(***************************************************************************)
\* The query of a search: a 50-vector, or the empty list.
RankQueries == {MkVec(50, [i \in ProbeIdx |-> 1]), <<>>}

\* The embeddings stored in the catalog.
RankVectors == {MkVec(50, [i \in ProbeIdx |-> IF i = 31 THEN 1 ELSE 0]),
                MkVec(50, [i \in ProbeIdx |-> IF i = 0 THEN 3 ELSE 0])}

\* The product at position id of the catalog: a dict with every key, with
\* no 'embedding' key, with a None or an empty embedding, or with no
\* 'category' key.
ProductsAt(id) ==
    LET base == [product_id |-> id, product_name |-> "name", category |-> "cat",
                 image_path |-> "path"]
    IN {base}
       \cup {[k \in DOMAIN base \cup {"embedding"} |->
                 IF k = "embedding" THEN e ELSE base[k]] :
             e \in {PyNone, PyList(<<>>)} \cup {PyList(v) : v \in RankVectors}}
       \cup {[product_id |-> id, product_name |-> "name", image_path |-> "path",
              embedding |-> PyList(v)] : v \in {MkVec(50, [i \in ProbeIdx |-> 1])}}

\* The catalogs of n products.
RECURSIVE ProductLists(_)
ProductLists(n) ==
    IF n = 0 THEN {<<>>}
    ELSE {Append(ps, x) : ps \in ProductLists(n - 1), x \in ProductsAt(n)}

\* A loaded catalog: a dict holding a list of products, or one with no
\* 'products' key.
Databases ==
    {[products |-> ps] : ps \in UNION {ProductLists(n) : n \in 0..MaxProducts}}
    \cup {[metadata |-> "none"]}

MinSimilarities == {FLit(-1, 2), FLit(1, 2), FInt(2)}

(***************************************************************************)
(* find_similar_products                                                   *)
(***************************************************************************)
\* Mutant of TopResults: the list is returned whole.
TopResultsUncut(sorted, maxres) == sorted

\* seq[:n] of Python: a negative n counts from the end.
PySlicePrefix(seq, n) ==
    IF n >= 0 THEN SubSeq(seq, 1, Min(n, Len(seq)))
    ELSE SubSeq(seq, 1, Max(Len(seq) + n, 0))

\* Mutant of InsertDesc: x goes before the entries with an equal key.
RECURSIVE InsertDescUnstable(_, _, _)
InsertDescUnstable(done, x, i) ==
    IF i > Len(done) \/ ~FLess(x.similarity_score, done[i].similarity_score)
    THEN SubSeq(done, 1, i - 1) \o <<x>> \o SubSeq(done, i, Len(done))
    ELSE InsertDescUnstable(done, x, i + 1)

\* Where list.sort(reverse=True) puts x in the sorted list done: after
\* every entry whose key is not below x's (the sort is stable).
RECURSIVE InsertDesc(_, _, _)
InsertDesc(done, x, i) ==
    IF i > Len(done) \/ FLess(done[i].similarity_score, x.similarity_score)
    THEN SubSeq(done, 1, i - 1) \o <<x>> \o SubSeq(done, i, Len(done))
    ELSE InsertDesc(done, x, i + 1)

RECURSIVE SortDescFrom(_, _, _)
SortDescFrom(xs, i, done) ==
    IF i > Len(xs) THEN done
    ELSE SortDescFrom(xs, i + 1, InsertDesc(done, xs[i], 1))

\* Mutant of SortBySimilarity: the list is left in catalog order.
SortBySimilarityOmitted(xs) == xs

\* similarities.sort(key=lambda x: x['similarity_score'], reverse=True)
SortBySimilarity(xs) == SortDescFrom(xs, 1, <<>>)

\* Mutant of HasEmbedding: the truth value of the embedding is not tested.
HasEmbeddingKeyOnly(product) == "embedding" \in DOMAIN product

\* if 'embedding' in product and product['embedding']
HasEmbedding(product) ==
    "embedding" \in DOMAIN product /\ Truthy(product.embedding)

\* Mutant of ReachesThreshold: every scored entry is kept.
ReachesThresholdAlways(sim, minsim) == TRUE

\* if similarity >= min_similarity
ReachesThreshold(sim, minsim) == FGeq(sim, minsim)

\* The keys the result dict reads from the product with product[...].
ResultKeys == {"product_id", "product_name", "category", "image_path"}

\* The loop over the products: the list of result dicts built so far, or
\* the KeyError of a product that lacks one of the keys read.
RECURSIVE ScoreProducts(_, _, _, _, _)
RECURSIVE AppendScored(_, _, _, _, _, _)
\* The body of the loop once the i-th product's similarity is computed.
AppendScored(q, products, minsim, i, acc, similarity) ==
    IF ~ReachesThreshold(similarity, minsim)
    THEN ScoreProducts(q, products, minsim, i + 1, acc)
    ELSE IF ~(ResultKeys \subseteq DOMAIN products[i])
    THEN [exc |-> TRUE, list |-> <<>>]
    ELSE ScoreProducts(q, products, minsim, i + 1,
             Append(acc, [product_id       |-> products[i].product_id,
                          product_name     |-> products[i].product_name,
                          category         |-> products[i].category,
                          image_path       |-> products[i].image_path,
                          similarity_score |-> similarity]))

ScoreProducts(q, products, minsim, i, acc) ==
    IF i > Len(products) THEN [exc |-> FALSE, list |-> acc]
    ELSE IF ~HasEmbedding(products[i])
    THEN ScoreProducts(q, products, minsim, i + 1, acc)
    ELSE AppendScored(q, products, minsim, i, acc,
             calculate_enhanced_similarity(q, products[i].embedding.list))

\* return similarities[:max_results]
TopResults(sorted, maxres) == PySlicePrefix(sorted, maxres)

\* product_database.get('products', [])
GetProducts(db) == IF "products" \in DOMAIN db THEN db.products ELSE <<>>

\* The sort and the slice, when the loop has not raised.
SortAndCut(scored, maxres) ==
    IF scored.exc THEN scored
    ELSE [exc |-> FALSE,
          list |-> TopResults(SortBySimilarity(scored.list), maxres)]

find_similar_products(q, db, minsim, maxres) ==
    IF Len(q) = 0 THEN [exc |-> FALSE, list |-> <<>>]
    ELSE SortAndCut(ScoreProducts(q, GetProducts(db), minsim, 1, <<>>), maxres)


(***************************************************************************)
(* extract_visual_features_from_image and generate_query_embedding         *)
(*                                                                         *)
(* An image is its width, height and mode.  A feature is named by its      *)
(* group, its place in the group and how its value arises: computed from   *)
(* the pixels, or one of the literals of the source.                       *)
(***************************************************************************)
\* image.thumbnail((224, 224), ...): the largest side after preprocessing.
ThumbnailSide == 224

\* The length the returned list is padded and cut to.
FeatureCount == 50

\* block_size = 8
block_size == 8

Feature(group, place, value) ==
    [group |-> group, place |-> place, value |-> value]

Group(group, n, value) == [k \in 1..n |-> Feature(group, k, value)]

\* The sizes PIL's Image.thumbnail may leave: the longer side becomes 224,
\* the other side the floor or the ceiling of its scaled length, at least 1.
ScaledSides(long, short) ==
    {Max(1, (ThumbnailSide * short) \div long),
     Max(1, (ThumbnailSide * short + long - 1) \div long)}

\* The outcomes of image.thumbnail((224, 224)): it raises (aspect = width /
\* height with height 0), or it leaves one of these sizes.  Resizing an
\* image of width 0 may do either.
ThumbnailOutcomes(img) ==
    IF img.height = 0 THEN {[raises |-> TRUE, width |-> 0, height |-> 0]}
    ELSE IF img.width = 0
         THEN {[raises |-> TRUE, width |-> 0, height |-> 0],
               [raises |-> FALSE, width |-> 1, height |-> ThumbnailSide]}
    ELSE IF img.width <= img.height
         THEN {[raises |-> FALSE, width |-> w, height |-> ThumbnailSide] :
                  w \in ScaledSides(img.height, img.width)}
    ELSE {[raises |-> FALSE, width |-> ThumbnailSide, height |-> h] :
             h \in ScaledSides(img.width, img.height)}

\* Mutant of NeedsThumbnail: only the width is compared with 224.
NeedsThumbnailWidthOnly(img) == img.width > ThumbnailSide

\* if image.width > 224 or image.height > 224
NeedsThumbnail(img) ==
    img.width > ThumbnailSide \/ img.height > ThumbnailSide

\* The outcomes of the preprocessing step for the caller's image.
PreprocessOutcomes(img) ==
    IF NeedsThumbnail(img) THEN ThumbnailOutcomes(img)
    ELSE {[raises |-> FALSE, width |-> img.width, height |-> img.height]}

\* len(edge_responses): one entry per interior pixel.
EdgeResponseCount(width, height) == Max(height - 2, 0) * Max(width - 2, 0)

\* A Python list lookup xs[i] raises IndexError outside -len..len-1.
IndexRaises(i, len) == i >= len \/ i < -len

\* The position in edge_responses of the magnitude the edge-detection loop
\* appends for the interior pixel (x, y): the loop runs over the rows
\* y = 1..height-2 and in each over x = 1..width-2.
GradientIndex(x, y, width) == (y - 1) * (width - 2) + (x - 1)

\* The position the edge-concentration loop reads for the pixel (x, y).
ConcentrationIndex(x, y, width) == y * (width - 2) + x - y

\* Whether a lookup edge_responses[y * (width-2) + x - y] of the
\* edge-concentration loop raises.
EdgeLookupRaises(width, height) ==
    \E y \in 1..(height - 2) : \E x \in 1..(width - 2) :
        IndexRaises(ConcentrationIndex(x, y, width),
                    EdgeResponseCount(width, height))

\* The number of blocks visited by
\* range(0, height - block_size, block_size) x range(0, width - block_size, ...).
BlockCount(width, height) ==
    Cardinality({y \in 0..(height - block_size - 1) : y % block_size = 0})
  * Cardinality({x \in 0..(width - block_size - 1) : x % block_size = 0})

\* Group 5a: edge mean, std, max and the 5-bin edge histogram, or 8 times 0.1.
EdgeFeatures(width, height) ==
    IF EdgeResponseCount(width, height) > 0
    THEN Group("edge", 8, "computed") ELSE Group("edge", 8, "0.1")

\* Group 5b: texture variance and uniformity, or twice 0.1.
TextureFeatures(width, height) ==
    IF BlockCount(width, height) > 0
    THEN Group("texture", 2, "computed") ELSE Group("texture", 2, "0.1")

\* Group 5c: the directional energies, computed when total_energy > 0 and
\* 0.33 each otherwise; total_energy is 0 when no pixel pair is visited.
DirectionalValues(width, height) ==
    IF width >= 2 /\ height >= 2 THEN {"computed", "0.33"} ELSE {"0.33"}

\* The features appended while rgb_pixels is not empty, in order.
PixelFeatures(width, height, directional) ==
    Group("rgb_stats", 6, "computed")
    \o Group("histogram", 15, "computed")
    \o Group("brightness", 2, "computed")
    \o Group("dominance", 9, "computed")
    \o EdgeFeatures(width, height)
    \o TextureFeatures(width, height)
    \o Group("directional", 3, directional)
    \o Group("shape", 7, "computed")

\* features.extend([red_dominant, green_dominant, blue_dominant, warm, cool,
\*                  avg_saturation, saturation_variance, aspect_ratio,
\*                  color_complexity])
DominanceNames ==
    <<"red_dominant", "green_dominant", "blue_dominant", "warm", "cool",
      "avg_saturation", "saturation_variance", "aspect_ratio",
      "color_complexity">>

\* features.extend([edge_density, length_category, vertical_structure,
\*                  horizontal_structure, top_edge_ratio, bottom_edge_ratio,
\*                  avg_color_range])
ShapeNames ==
    <<"edge_density", "length_category", "vertical_structure",
      "horizontal_structure", "top_edge_ratio", "bottom_edge_ratio",
      "avg_color_range">>

\* The variable of the source whose value the feature f holds, for the
\* groups whose members the source names one by one.
FeatureName(f) ==
    IF f.group = "dominance" THEN DominanceNames[f.place]
    ELSE IF f.group = "shape" THEN ShapeNames[f.place]
    ELSE f.group

\* Mutant of EnsureLength: the list is padded but not cut.
EnsureLengthPadOnly(fs) ==
    fs \o [k \in 1..Max(FeatureCount - Len(fs), 0) |-> Feature("pad", k, "0.05")]

\* while len(features) < 50: features.append(0.05); features = features[:50]
EnsureLength(fs) ==
    SubSeq(fs \o [k \in 1..Max(FeatureCount - Len(fs), 0) |->
                      Feature("pad", k, "0.05")],
           1, FeatureCount)

\* A quotient the code has not computed.
NotComputed == [num |-> -1, den |-> -1]

\* The numbers of gradient magnitudes above 30 the images of a size are
\* drawn with: none, or all of them.
EdgePixelCounts(width, height) == {0, EdgeResponseCount(width, height)}

\* edge_density = edge_pixel_count / len(rgb_pixels), as a quotient.
EdgeDensity(width, height, edge_pixel_count) ==
    [num |-> edge_pixel_count, den |-> width * height]

\* The local values of an extraction that reaches the pixel block: the
\* edge density and the number of local variances.
Measures(data, pre, edge_pixel_count) ==
    IF data = "corrupt" \/ pre.raises \/ pre.width * pre.height = 0
    THEN [edge_density |-> NotComputed, local_variances |-> -1]
    ELSE [edge_density |-> EdgeDensity(pre.width, pre.height, edge_pixel_count),
          local_variances |-> BlockCount(pre.width, pre.height)]

\* No image: preprocessing has not run or did not finish.
NoImage == [width |-> -1, height |-> -1, mode |-> "none"]

\* if image.mode != 'RGB': image = image.convert('RGB')
ConvertRGB(img) == IF img.mode # "RGB" THEN [img EXCEPT !.mode = "RGB"] ELSE img

\* return [0.1] * 50
FallbackFeatures == Group("fallback", FeatureCount, "0.1")

\* extract_visual_features_from_image(img) when the preprocessing step has
\* the outcome pre and the directional group the value directional: the
\* returned list, whether the except branch ran, and the caller's image
\* afterwards (thumbnail works in place, convert makes a copy).
extract_visual_features_from_image(img, pre, directional) ==
    IF pre.raises
    THEN [features |-> FallbackFeatures, raised |-> TRUE, image |-> img,
          rgb |-> NoImage]
    ELSE LET after == [img EXCEPT !.width = pre.width, !.height = pre.height]
             width == pre.width
             height == pre.height
         IN IF width * height = 0
            THEN [features |-> EnsureLength(<<>>), raised |-> FALSE,
                  image |-> after, rgb |-> ConvertRGB(after)]
            ELSE IF EdgeLookupRaises(width, height)
            THEN [features |-> FallbackFeatures, raised |-> TRUE,
                  image |-> after, rgb |-> ConvertRGB(after)]
            ELSE [features |->
                      EnsureLength(PixelFeatures(width, height, directional)),
                  raised |-> FALSE, image |-> after,
                  rgb |-> ConvertRGB(after)]

(***************************************************************************)
(* The catalog builder: extract_visual_features of                         *)
(* regenerate_visual_embeddings.py                                         *)
(***************************************************************************)
\* The nine values taken from detect_garment_silhouette.
SilhouetteNames ==
    <<"aspect_ratio", "garment_type_score", "vertical_dominance",
      "top_structure", "middle_structure", "bottom_structure",
      "waist_prominence", "leg_separation", "sleeve_prominence">>

\* features.extend([top_width_ratio, middle_width_ratio, bottom_width_ratio,
\*                  width_variance, garment_fit, length_category,
\*                  symmetry_score])
WidthNames ==
    <<"top_width_ratio", "middle_width_ratio", "bottom_width_ratio",
      "width_variance", "garment_fit", "length_category", "symmetry_score">>

\* features.extend([edge_mean, edge_std, edge_density, h_edge_ratio,
\*                  v_edge_ratio]), or [0.1, 0.1, 0.1, 0.5, 0.5].
BuilderEdgeNames ==
    <<"edge_mean", "edge_std", "edge_density", "h_edge_ratio", "v_edge_ratio">>

BuilderEdgeLiterals == <<"0.1", "0.1", "0.1", "0.5", "0.5">>

\* region_features + [center_x, center_y, structural_symmetry,
\*                    garment_coverage]
RegionNames ==
    <<"top_left", "top_right", "middle_left", "middle_right", "bottom_left",
      "bottom_right", "center_x", "center_y", "structural_symmetry",
      "garment_coverage">>

\* features.extend([avg_color_range, brightness, contrast,
\*                  dominant_channel / 2.0])
BuilderColourNames ==
    <<"avg_color_range", "brightness", "contrast", "dominant_channel">>

\* features.extend([texture_mean, texture_std, texture_uniformity,
\*                  pattern_score, complexity_score])
BuilderTextureNames ==
    <<"texture_mean", "texture_std", "texture_uniformity", "pattern_score",
      "color_complexity">>

\* Without a block the texture values are 0.1, 0.1, 0.5 and min(0.5, 1.0).
BuilderTextureLiterals == <<"0.1", "0.1", "0.5", "0.5", "computed">>

\* block_size = 16 of the builder.
builder_block_size == 16

BuilderBlockCount(width, height) ==
    Cardinality({y \in 0..(height - builder_block_size - 1) :
                     y % builder_block_size = 0})
  * Cardinality({x \in 0..(width - builder_block_size - 1) :
                     x % builder_block_size = 0})

\* A group of the builder: its features carry the name of their variable.
NamedGroup(names, values) ==
    [k \in 1..Len(names) |-> Feature(names[k], 1, values[k])]

AllComputed(names) == [k \in 1..Len(names) |-> "computed"]

\* The features the builder appends for an image with pixels, in order.
BuilderFeatures(width, height) ==
    NamedGroup(SilhouetteNames, AllComputed(SilhouetteNames))
    \o NamedGroup(WidthNames, AllComputed(WidthNames))
    \o NamedGroup(BuilderEdgeNames,
                  IF EdgeResponseCount(width, height) > 0
                  THEN AllComputed(BuilderEdgeNames) ELSE BuilderEdgeLiterals)
    \o NamedGroup(RegionNames, AllComputed(RegionNames))
    \o Group("rgb_stats", 6, "computed")
    \o NamedGroup(BuilderColourNames, AllComputed(BuilderColourNames))
    \o NamedGroup(BuilderTextureNames,
                  IF BuilderBlockCount(width, height) > 0
                  THEN AllComputed(BuilderTextureNames)
                  ELSE BuilderTextureLiterals)

\* extract_visual_features(image_path) when the preprocessing of the opened
\* image has the outcome pre: an image without pixels and an exception give
\* [0.1] * 50.
extract_visual_features(pre) ==
    IF pre.raises \/ pre.width * pre.height = 0 THEN FallbackFeatures
    ELSE EnsureLength(BuilderFeatures(pre.width, pre.height))

\* The images handed to the extraction.
Sides == (0..MaxSide) \cup LargeSides

Modes == {"RGB", "L", "RGBA"}

Images == [width : Sides, height : Sides, mode : Modes]

\* The uploaded bytes either decode to the image or Image.open raises.
ImageData == {"decodable", "corrupt"}

(***************************************************************************)
(* Specifications                                                          *)
(***************************************************************************)
SimIdle ==
    /\ sim_query = <<>>
    /\ sim_product = <<>>
    /\ sim_result = FZero
    /\ sim_raised = FALSE
    /\ sim_done = FALSE
    /\ cos_result = FZero
    /\ cos_raised = FALSE
    /\ cos_done = FALSE

FindIdle ==
    /\ product_database = [metadata |-> "none"]
    /\ query_embedding = <<>>
    /\ min_similarity = FZero
    /\ max_results = 10
    /\ similarities = <<>>
    /\ find_raised = FALSE
    /\ find_done = FALSE

ExtractIdle ==
    /\ image = [width |-> 1, height |-> 1, mode |-> "RGB"]
    /\ image_data = "none"
    /\ features = <<>>
    /\ extract_raised = FALSE
    /\ extract_done = FALSE
    /\ rgb_image = NoImage
    /\ edge_density = NotComputed
    /\ local_variances = -1
    /\ image_path = image
    /\ catalog_features = <<>>
    /\ build_done = FALSE

\* No client: the server has no request in flight.
ServerIdle ==
    /\ requests = <<>>
    /\ pc = <<>>
    /\ responses = <<>>
    /\ pinecone_index = FALSE

\* No answer yet.
NoResponse == [status |-> 0]

\* PineconeService.__init__, and no call of /health or /categories yet.
ServiceIdle ==
    /\ pinecone_client = FALSE
    /\ pinecone_model = FALSE
    /\ initialize_result = "none"
    /\ health_response = NoResponse
    /\ categories_response = NoResponse

\* No call of simple_histogram.
HistIdle ==
    /\ hist_values = <<>>
    /\ hist = <<>>
    /\ hist_norm = <<>>
    /\ hist_done = FALSE

\* No call of the legacy generate_query_embedding: numpy's generator is unseeded.
LegacyIdle ==
    /\ rng = [seed |-> "unseeded", count |-> 0]
    /\ worker_bytes = <<>>
    /\ worker_pc = <<>>
    /\ worker_features = <<>>

\* The arguments of one call of calculate_enhanced_similarity.
InitScore ==
    /\ sim_query \in ScoreVectors
    /\ sim_product \in ScoreVectors
    /\ sim_result = FZero
    /\ sim_raised = FALSE
    /\ sim_done = FALSE
    /\ cos_result = FZero
    /\ cos_raised = FALSE
    /\ cos_done = FALSE
    /\ FindIdle
    /\ ExtractIdle
    /\ ServerIdle
    /\ LegacyIdle
    /\ HistIdle
    /\ ServiceIdle

\* The call calculate_enhanced_similarity(sim_query, sim_product).
Score ==
    /\ ~sim_done
    /\ \E r \in {EnhancedSimilarityTry(sim_query, sim_product)} :
          /\ sim_result' = ValueOrZero(r)
          /\ sim_raised' = r.exc
    /\ sim_done' = TRUE
    /\ UNCHANGED <<sim_query, sim_product, cos_result, cos_raised, cos_done,
                   findVars, extractVars, buildVars, serverVars, legacyVars,
                   histVars, serviceVars>>

\* The call calculate_cosine_similarity(sim_query, sim_product).
Cosine ==
    /\ ~cos_done
    /\ \E r \in {CosineSimilarityTry(sim_query, sim_product)} :
          /\ cos_result' = ValueOrZero(r)
          /\ cos_raised' = r.exc
    /\ cos_done' = TRUE
    /\ UNCHANGED <<sim_query, sim_product, sim_result, sim_raised, sim_done,
                   findVars, extractVars, buildVars, serverVars, legacyVars,
                   histVars, serviceVars>>

NextScore == Score \/ Cosine

SpecScore == InitScore /\ [][NextScore]_vars

\* The loaded catalog and the arguments of one call of find_similar_products.
InitRank ==
    /\ SimIdle
    /\ ExtractIdle
    /\ ServerIdle
    /\ LegacyIdle
    /\ HistIdle
    /\ ServiceIdle
    /\ product_database \in Databases
    /\ query_embedding \in RankQueries
    /\ min_similarity \in MinSimilarities
    /\ max_results \in (-MaxResults)..MaxResults
    /\ similarities = <<>>
    /\ find_raised = FALSE
    /\ find_done = FALSE

\* The call find_similar_products(query_embedding, product_database,
\* min_similarity, max_results).
FindSimilar ==
    /\ ~find_done
    /\ \E r \in {find_similar_products(query_embedding, product_database,
                                       min_similarity, max_results)} :
          /\ similarities' = r.list
          /\ find_raised' = r.exc
    /\ find_done' = TRUE
    /\ UNCHANGED <<product_database, query_embedding, min_similarity,
                   max_results, simVars, extractVars, buildVars, serverVars,
                   legacyVars,
                   histVars, serviceVars>>

NextRank == FindSimilar

SpecRank == InitRank /\ [][NextRank]_vars


\* The generate_query_embedding(image_data) call: Image.open raises on bytes
\* that do not decode, and the fallback list is returned.
generate_query_embedding(data, img, pre, directional) ==
    IF data = "corrupt"
    THEN [features |-> FallbackFeatures, raised |-> TRUE, image |-> img,
          rgb |-> NoImage]
    ELSE extract_visual_features_from_image(img, pre, directional)

\* One extraction: image_data is "none" for a direct call of
\* extract_visual_features_from_image(image), else the bytes handed to
\* generate_query_embedding, which decode to image unless corrupt.
InitExtract ==
    /\ SimIdle
    /\ FindIdle
    /\ ServerIdle
    /\ LegacyIdle
    /\ HistIdle
    /\ ServiceIdle
    /\ image \in Images
    /\ image_data \in {"none"} \cup ImageData
    /\ features = <<>>
    /\ extract_raised = FALSE
    /\ extract_done = FALSE
    /\ rgb_image = NoImage
    /\ edge_density = NotComputed
    /\ local_variances = -1
    /\ image_path = image
    /\ catalog_features = <<>>
    /\ build_done = FALSE

\* The call extract_visual_features_from_image(image).
ExtractFromImage ==
    /\ ~extract_done
    /\ image_data = "none"
    /\ \E pre \in PreprocessOutcomes(image) :
         /\ \E directional \in DirectionalValues(pre.width, pre.height) :
               LET r == extract_visual_features_from_image(image, pre,
                                                           directional)
               IN /\ features' = r.features
                  /\ extract_raised' = r.raised
                  /\ image' = r.image
                  /\ rgb_image' = r.rgb
         /\ \E n \in EdgePixelCounts(pre.width, pre.height) :
               \E m \in {Measures(image_data, pre, n)} :
                  /\ edge_density' = m.edge_density
                  /\ local_variances' = m.local_variances
    /\ extract_done' = TRUE
    /\ UNCHANGED <<image_data, simVars, findVars, buildVars, serverVars,
                   legacyVars,
                   histVars, serviceVars>>

\* The call generate_query_embedding(image_data).
GenerateQueryEmbedding ==
    /\ ~extract_done
    /\ image_data \in ImageData
    /\ \E pre \in PreprocessOutcomes(image) :
         /\ \E directional \in DirectionalValues(pre.width, pre.height) :
               LET r == generate_query_embedding(image_data, image, pre,
                                                 directional)
               IN /\ features' = r.features
                  /\ extract_raised' = r.raised
                  /\ image' = r.image
                  /\ rgb_image' = r.rgb
         /\ \E n \in EdgePixelCounts(pre.width, pre.height) :
               \E m \in {Measures(image_data, pre, n)} :
                  /\ edge_density' = m.edge_density
                  /\ local_variances' = m.local_variances
    /\ extract_done' = TRUE
    /\ UNCHANGED <<image_data, simVars, findVars, buildVars, serverVars,
                   legacyVars,
                   histVars, serviceVars>>

\* The catalog builder's call extract_visual_features(image_path).
BuildEmbedding ==
    /\ ~build_done
    /\ \E pre \in PreprocessOutcomes(image_path) :
          catalog_features' = extract_visual_features(pre)
    /\ build_done' = TRUE
    /\ UNCHANGED <<image_path, extractVars, simVars, findVars, serverVars,
                   legacyVars,
                   histVars, serviceVars>>

NextExtract == ExtractFromImage \/ GenerateQueryEmbedding \/ BuildEmbedding

SpecExtract == InitExtract /\ [][NextExtract]_vars

(***************************************************************************)
(* The search handlers of main.py: search_by_upload and search_by_url      *)
(*                                                                         *)
(* A handler runs on the event loop: it runs alone up to its await (the    *)
(* read of the upload, the download of the URL) and alone after it, and    *)
(* the handlers of other requests may run in between.                      *)
(***************************************************************************)
Clients == {1, 2}

\* The float a feature of the returned list holds: its literal, or the value
\* computed from the pixels, which is an input of the model.
LiteralValue(v) ==
    IF v = "0.1" THEN FLit(1, 10)
    ELSE IF v = "0.05" THEN FLit(1, 20)
    ELSE FLit(33, 100)

EmbeddingOf(fs, computed) ==
    [k \in 1..Len(fs) |-> IF fs[k].value = "computed" THEN computed[k]
                          ELSE LiteralValue(fs[k].value)]

\* raise HTTPException(status_code=status, detail=detail)
HttpError(status, detail) ==
    [status |-> status, detail |-> detail, results |-> <<>>]

\* return SearchResponse(..., results=results, ...)
SearchResponse(results) ==
    [status |-> 200, detail |-> "", results |-> results]

\* product_database = None, the value before load_product_database.
NoDatabase == [none |-> TRUE]

\* bool(product_database): None and the empty dict are falsy.
DatabaseLoaded(db) == db # NoDatabase /\ DOMAIN db # {}

\* Query(0.0, ge=0.0, le=1.0) and Query(10, ge=1, le=50) of search_by_upload;
\* ImageSearchRequest of search_by_url constrains neither value.
ParametersValid(req) ==
    \/ req.endpoint = "url"
    \/ /\ FGeq(req.min_similarity, FZero)
       /\ FGeq(FInt(1), req.min_similarity)
       /\ req.max_results \in 1..50

\* The detail of the error raised when the query embedding is falsy.
FailedToProcess(req) ==
    IF req.endpoint = "upload" THEN "Failed to process image"
    ELSE "Failed to process image from URL"

\* The response built from the ranking: a raise inside the try block
\* becomes the 500 of the last except clause.
RankingResponse(found) ==
    IF found.exc THEN HttpError(500, "Internal server error")
    ELSE SearchResponse(found.list)

\* The local branch once generate_query_embedding has returned.
RankEmbedding(db, req, embedding) ==
    IF Len(embedding) = 0 THEN HttpError(400, FailedToProcess(req))
    ELSE RankingResponse(find_similar_products(embedding, db,
                             req.min_similarity, req.max_results))

\* The local branch: query_embedding = generate_query_embedding(image_data)
\* and the ranking of it.
LocalSearch(db, req, pre, directional) ==
    RankEmbedding(db, req,
        EmbeddingOf(generate_query_embedding(req.image_data, req.image, pre,
                                             directional).features,
                    req.computed))

\* The responses of the Pinecone branch: the service is outside the model.
PineconeResponses ==
    {HttpError(400, "Failed to process image with Pinecone"),
     HttpError(500, "Internal server error"),
     [status |-> 200, detail |-> "pinecone", results |-> <<>>]}

\* The handler up to its await: the response it ends with, or "reading".
BeforeAwait(db, req) ==
    IF ~ParametersValid(req) THEN HttpError(422, "validation error")
    ELSE IF ~DatabaseLoaded(db)
    THEN HttpError(503, "Product database not loaded")
    ELSE IF req.endpoint = "upload" /\ ~req.content_type_image
    THEN HttpError(400, "File must be an image")
    ELSE [status |-> 0, detail |-> "reading", results |-> <<>>]

\* The responses the handler may end with after its await.
AfterAwait(db, req, index) ==
    IF req.endpoint = "url" /\ ~req.download_ok
    THEN {HttpError(400, "Failed to download image from URL")}
    ELSE IF req.use_pinecone /\ index THEN PineconeResponses
    ELSE UNION {{LocalSearch(db, req, pre, directional) :
                    directional \in DirectionalValues(pre.width, pre.height)} :
                pre \in PreprocessOutcomes(req.image)}

\* Mutant of CatalogAfterSearch: the handler drops the first product.
CatalogAfterSearchPopped(db) ==
    IF "products" \in DOMAIN db /\ Len(db.products) > 0
    THEN [db EXCEPT !.products = Tail(@)] ELSE db

\* The catalog after a handler has run: no handler assigns product_database
\* or writes into it (find_similar_products builds new dicts and sorts the
\* new list).
CatalogAfterSearch(db) == db

\* The images the uploads decode to: one whose features are computed from
\* its pixels, one whose extraction raises.
SearchImages == {[width |-> 2, height |-> 2, mode |-> "RGB"],
                 [width |-> 3, height |-> 3, mode |-> "L"]}

\* The values of the features computed from the pixels of an upload.
ComputedValues == MkVec(50, [i \in ProbeIdx |-> 1])

\* An upload of a decodable image with the default parameters.
PlainUpload ==
    [endpoint |-> "upload", content_type_image |-> TRUE, download_ok |-> TRUE,
     image_data |-> "decodable",
     image |-> [width |-> 2, height |-> 2, mode |-> "RGB"],
     computed |-> ComputedValues, min_similarity |-> FZero,
     max_results |-> 10, use_pinecone |-> FALSE]

\* The requests of the model.
SearchRequests ==
    {[PlainUpload EXCEPT !.image = img] : img \in SearchImages}
    \cup {[PlainUpload EXCEPT !.image_data = "corrupt", !.endpoint = e] :
              e \in {"upload", "url"}}
    \cup {[PlainUpload EXCEPT !.content_type_image = FALSE],
          [PlainUpload EXCEPT !.max_results = 0],
          [PlainUpload EXCEPT !.use_pinecone = TRUE],
          [PlainUpload EXCEPT !.endpoint = "url", !.download_ok = FALSE],
          [PlainUpload EXCEPT !.endpoint = "url", !.max_results = -1],
          [PlainUpload EXCEPT !.min_similarity = FLit(1, 2), !.max_results = 1]}

\* A catalog product with every key.
Product(id, embedding) ==
    [product_id |-> id, product_name |-> "name", category |-> "cat",
     image_path |-> "path", embedding |-> PyList(embedding)]

\* The catalogs the server may have loaded: an empty dict, and two lists.
SearchDatabases ==
    {[k \in {} |-> 0],
     [products |-> <<Product(1, MkVec(50, [i \in ProbeIdx |-> IF i = 0 THEN 3 ELSE 0])),
                     Product(2, MkVec(50, [i \in ProbeIdx |-> 1]))>>],
     [products |-> <<Product(1, MkVec(50, [i \in ProbeIdx |-> 1])),
                     [product_id |-> 2, product_name |-> "name",
                      image_path |-> "path",
                      embedding |-> PyList(MkVec(50, [i \in ProbeIdx |-> 1]))]>>]}

Pending == [status |-> 0, detail |-> "", results |-> <<>>]

\* A loaded catalog and one request per client, not yet handled.
InitSearch ==
    /\ SimIdle
    /\ LegacyIdle
    /\ HistIdle
    /\ initialize_result = "none"
    /\ health_response = NoResponse
    /\ categories_response = NoResponse
    /\ ExtractIdle
    /\ product_database \in SearchDatabases
    /\ query_embedding = <<>>
    /\ min_similarity = FZero
    /\ max_results = 10
    /\ similarities = <<>>
    /\ find_raised = FALSE
    /\ find_done = FALSE
    /\ requests \in [Clients -> SearchRequests]
    /\ pc = [c \in Clients |-> "start"]
    /\ responses = [c \in Clients |-> Pending]
    /\ pinecone_index \in BOOLEAN
    /\ pinecone_client = pinecone_index
    /\ pinecone_model = pinecone_index

\* generate_embedding returns None while the model is not set, and the
\* Pinecone branch then answers 400: whether r can be the answer.
ModelAllows(req, index, model, r) ==
    (req.use_pinecone /\ index /\ ~model
        /\ ~(req.endpoint = "url" /\ ~req.download_ok))
    => r = HttpError(400, "Failed to process image with Pinecone")

\* search_by_upload / search_by_url of client c up to the await.
BeginSearch(c) ==
    /\ pc[c] = "start"
    /\ \E r \in {BeforeAwait(product_database, requests[c])} :
          /\ responses' = [responses EXCEPT ![c] = r]
          /\ pc' = [pc EXCEPT ![c] = IF r.status = 0 THEN "reading" ELSE "done"]
    /\ UNCHANGED <<requests, pinecone_index, simVars, findVars, extractVars,
                   buildVars, legacyVars,
                   histVars, serviceVars>>

\* The handler of client c from its await to its response.
FinishSearch(c) ==
    /\ pc[c] = "reading"
    /\ \E r \in AfterAwait(product_database, requests[c], pinecone_index) :
          /\ ModelAllows(requests[c], pinecone_index, pinecone_model, r)
          /\ responses' = [responses EXCEPT ![c] = r]
    /\ pc' = [pc EXCEPT ![c] = "done"]
    /\ product_database' = CatalogAfterSearch(product_database)
    /\ UNCHANGED <<requests, pinecone_index, simVars, extractVars, buildVars,
                   query_embedding, min_similarity, max_results, similarities,
                   find_raised, find_done, legacyVars,
                   histVars, serviceVars>>

NextSearch == \E c \in Clients : BeginSearch(c) \/ FinishSearch(c)

SpecSearch == InitSearch /\ [][NextSearch]_vars

(***************************************************************************)
(* /health and /categories next to the search handlers.                    *)
(***************************************************************************)
\* health_check(): the HealthResponse.
health_check(db) ==
    [status |-> IF DatabaseLoaded(db) THEN "healthy" ELSE "unhealthy",
     database_loaded |-> db # NoDatabase,
     total_products |-> IF DatabaseLoaded(db) THEN Len(GetProducts(db)) ELSE 0]

\* get_categories(): 503 for a falsy catalog, else the category counts
\* (get_category_stats reads with .get and raises for no product).
get_categories(db) ==
    IF ~DatabaseLoaded(db) THEN [status |-> 503] ELSE [status |-> 200]

\* What product_database can hold: None, an empty object, an object with
\* no 'products' key, and product lists, the empty one among them.
HealthDatabases == {NoDatabase, [k \in {} |-> 0]} \cup Databases

InitHealth ==
    /\ SimIdle
    /\ ExtractIdle
    /\ LegacyIdle
    /\ HistIdle
    /\ ServiceIdle
    /\ product_database \in HealthDatabases
    /\ query_embedding = <<>>
    /\ min_similarity = FZero
    /\ max_results = 10
    /\ similarities = <<>>
    /\ find_raised = FALSE
    /\ find_done = FALSE
    /\ requests \in [Clients -> {PlainUpload,
                                 [PlainUpload EXCEPT !.endpoint = "url"]}]
    /\ pc = [c \in Clients |-> "start"]
    /\ responses = [c \in Clients |-> Pending]
    /\ pinecone_index = FALSE

\* GET /health
HealthCheck ==
    /\ health_response = NoResponse
    /\ health_response' = health_check(product_database)
    /\ UNCHANGED <<pinecone_client, pinecone_model, initialize_result,
                   categories_response, simVars, findVars, extractVars,
                   buildVars, serverVars, legacyVars, histVars>>

\* GET /categories
GetCategories ==
    /\ categories_response = NoResponse
    /\ categories_response' = get_categories(product_database)
    /\ UNCHANGED <<pinecone_client, pinecone_model, initialize_result,
                   health_response, simVars, findVars, extractVars,
                   buildVars, serverVars, legacyVars, histVars>>

NextHealth == HealthCheck \/ GetCategories \/ \E c \in Clients : BeginSearch(c)

SpecHealth == InitHealth /\ [][NextHealth]_vars

(***************************************************************************)
(* PineconeService.initialize next to the search handlers.                 *)
(***************************************************************************)
\* How far a call of initialize() gets: the API key is missing; the client
\* constructor raises; listing, creating or opening the index raises;
\* hub.load raises; nothing raises.
InitializeOutcomes == {"no_key", "no_client", "no_index", "no_model", "ok"}

\* The service after initialize() with the given outcome: each attribute is
\* assigned when its line is reached, and the except branch undoes nothing.
initialize(svc, outcome) ==
    [pc     |-> svc.pc \/ outcome \in {"no_index", "no_model", "ok"},
     index  |-> svc.index \/ outcome \in {"no_model", "ok"},
     model  |-> svc.model \/ outcome = "ok",
     result |-> IF outcome = "ok" THEN "true" ELSE "false"]

InitPinecone ==
    /\ SimIdle
    /\ ExtractIdle
    /\ LegacyIdle
    /\ HistIdle
    /\ ServiceIdle
    /\ product_database \in SearchDatabases
    /\ query_embedding = <<>>
    /\ min_similarity = FZero
    /\ max_results = 10
    /\ similarities = <<>>
    /\ find_raised = FALSE
    /\ find_done = FALSE
    /\ requests \in [Clients -> {PlainUpload,
                                 [PlainUpload EXCEPT !.use_pinecone = TRUE]}]
    /\ pc = [c \in Clients |-> "start"]
    /\ responses = [c \in Clients |-> Pending]
    /\ pinecone_index = FALSE

\* POST /api/pinecone/initialize: one call of pinecone_service.initialize().
Initialize ==
    /\ \E outcome \in InitializeOutcomes :
         \E svc \in {initialize([pc |-> pinecone_client,
                                 index |-> pinecone_index,
                                 model |-> pinecone_model], outcome)} :
            /\ pinecone_client' = svc.pc
            /\ pinecone_index' = svc.index
            /\ pinecone_model' = svc.model
            /\ initialize_result' = svc.result
    /\ UNCHANGED <<requests, pc, responses, health_response,
                   categories_response, simVars, findVars, extractVars,
                   buildVars, legacyVars, histVars>>

NextPinecone ==
    Initialize \/ \E c \in Clients : BeginSearch(c) \/ FinishSearch(c)

SpecPinecone == InitPinecone /\ [][NextPinecone]_vars

(***************************************************************************)
(* The legacy module src/similarity.py: generate_query_embedding computes  *)
(* 20 features and pads them to 50 with draws from numpy's process-wide    *)
(* generator, which it seeds first.  Two worker threads run the call; the  *)
(* interpreter may switch threads between any two numpy calls.  The model  *)
(* lets a thread be preempted after the seeding and before each of its     *)
(* last PadSteps draws.                                                    *)
(***************************************************************************)
Workers == {1, 2}
LegacyComputed == 20
PadSteps == 3
LegacyBytes == {"a", "b", "corrupt"}

\* The 20 values computed from the pixels (or their literals for no pixels).
LegacyFeatures == Group("legacy", LegacyComputed, "computed")

\* int(md5(f"{sum(features):.6f}").hexdigest()[:8], 16): a function of the
\* features, hence of the bytes.
random_seed(bytes) == "md5:" \o bytes

\* np.random.seed(seed): the generator restarts the stream of that seed.
Seeded(seed) == [seed |-> seed, count |-> 0]

\* The next n values of np.random.random() * 0.1 in generator state g.
Draws(g, n) == [k \in 1..n |-> Feature(g.seed, g.count + k - 1, "random*0.1")]

\* The number of draws a thread makes before it can be preempted again.
DrawsInStep(len) ==
    IF len < FeatureCount - PadSteps THEN FeatureCount - PadSteps - len ELSE 1

InitLegacy ==
    /\ SimIdle
    /\ HistIdle
    /\ ServiceIdle
    /\ FindIdle
    /\ ExtractIdle
    /\ ServerIdle
    /\ rng = [seed |-> "unseeded", count |-> 0]
    /\ worker_bytes \in [Workers -> LegacyBytes]
    /\ worker_pc = [w \in Workers |-> "start"]
    /\ worker_features = [w \in Workers |-> <<>>]

\* Lines 18-85: open the image, compute the features, seed the generator;
\* bytes that are no image take the except branch (95-98).
LegacySeed(w) ==
    /\ worker_pc[w] = "start"
    /\ IF worker_bytes[w] = "corrupt"
       THEN /\ worker_features' = [worker_features EXCEPT ![w] = FallbackFeatures]
            /\ worker_pc' = [worker_pc EXCEPT ![w] = "done"]
            /\ UNCHANGED rng
       ELSE /\ worker_features' = [worker_features EXCEPT ![w] = LegacyFeatures]
            /\ rng' = Seeded(random_seed(worker_bytes[w]))
            /\ worker_pc' = [worker_pc EXCEPT ![w] = "padding"]
    /\ UNCHANGED <<worker_bytes, simVars, findVars, extractVars, buildVars,
                   serverVars,
                   histVars, serviceVars>>

\* Lines 87-88: while len(features) < 50: features.append(random() * 0.1).
LegacyDraw(w) ==
    /\ worker_pc[w] = "padding"
    /\ Len(worker_features[w]) < FeatureCount
    /\ \E n \in {DrawsInStep(Len(worker_features[w]))} :
          /\ worker_features' =
                [worker_features EXCEPT ![w] = @ \o Draws(rng, n)]
          /\ rng' = [rng EXCEPT !.count = @ + n]
    /\ UNCHANGED <<worker_bytes, worker_pc, simVars, findVars, extractVars,
                   buildVars, serverVars,
                   histVars, serviceVars>>

\* Lines 90-92: features = features[:50]; return features.
LegacyReturn(w) ==
    /\ worker_pc[w] = "padding"
    /\ Len(worker_features[w]) >= FeatureCount
    /\ worker_features' =
          [worker_features EXCEPT ![w] = PySlicePrefix(@, FeatureCount)]
    /\ worker_pc' = [worker_pc EXCEPT ![w] = "done"]
    /\ UNCHANGED <<rng, worker_bytes, simVars, findVars, extractVars,
                   buildVars, serverVars,
                   histVars, serviceVars>>

NextLegacy ==
    \E w \in Workers : LegacySeed(w) \/ LegacyDraw(w) \/ LegacyReturn(w)

SpecLegacy == InitLegacy /\ [][NextLegacy]_vars

(***************************************************************************)
(* simple_histogram and the normalisation of its counts.  The values are   *)
(* channel values, integers in 0..255; for them the double quotient        *)
(* (val - range_min) / bin_width has the integer part of the exact one.    *)
(***************************************************************************)
MaxPixels == 3
HistProbe == {0, 50, 51, 127, 254, 255}

\* int(a / b) for b > 0: Python's int() cuts towards zero.
TruncDiv(a, b) == IF a >= 0 THEN a \div b ELSE -((-a) \div b)

\* Mutant of BinIndex: the index is not clamped to the last bin.
BinIndexUnclamped(val, bins, range_min, range_max) ==
    TruncDiv((val - range_min) * bins, range_max - range_min)

\* bin_index = min(int((val - range_min) / bin_width), bins - 1), with
\* bin_width = (range_max - range_min) / bins.
BinIndex(val, bins, range_min, range_max) ==
    Min(TruncDiv((val - range_min) * bins, range_max - range_min), bins - 1)

\* hist: hist[bin_index] += 1 for every value whose bin_index is >= 0.
simple_histogram(values, bins, range_min, range_max) ==
    [b \in 1..bins |->
        Cardinality({k \in 1..Len(values) :
            BinIndex(values[k], bins, range_min, range_max) = b - 1})]

\* hist_norm = [h / len(rgb_pixels) for h in hist]
HistNorm(h, n) == [b \in 1..Len(h) |-> FDiv(FInt(h[b]), FInt(n))]

\* The channel values of an image of at most MaxPixels pixels.
InitHist ==
    /\ SimIdle
    /\ FindIdle
    /\ ExtractIdle
    /\ ServerIdle
    /\ LegacyIdle
    /\ ServiceIdle
    /\ hist_values \in UNION {[1..n -> HistProbe] : n \in 0..MaxPixels}
    /\ hist = <<>>
    /\ hist_norm = <<>>
    /\ hist_done = FALSE

\* Lines 141-143 for one channel; the extractor reaches them only when the
\* image has pixels.
Histogram ==
    /\ ~hist_done
    /\ \E h \in {simple_histogram(hist_values, 5, 0, 255)} :
          /\ hist' = h
          /\ hist_norm' = IF Len(hist_values) > 0
                          THEN HistNorm(h, Len(hist_values)) ELSE <<>>
    /\ hist_done' = TRUE
    /\ UNCHANGED <<hist_values, simVars, findVars, extractVars, buildVars,
                   serverVars, legacyVars, serviceVars>>

NextHist == Histogram

SpecHist == InitHist /\ [][NextHist]_vars

(***************************************************************************)
(* Claims about find_similar_products (checked under SpecRank)             *)
(***************************************************************************)
Products == GetProducts(product_database)

\* The score find_similar_products computes for the i-th catalog entry.
ScoreOfEntry(i) ==
    calculate_enhanced_similarity(query_embedding, Products[i].embedding.list)

\* The catalog positions whose entry has a vector and reaches min_similarity.
Qualifying ==
    {i \in 1..Len(Products) :
        HasEmbedding(Products[i]) /\ FGeq(ScoreOfEntry(i), min_similarity)}

\* C2: the returned list is sorted non-increasing by similarity_score: each
\* entry's score is greater than or equal to the score of the entry after it.
C2_SortedNonIncreasing ==
    find_done =>
        \A i \in 1..(Len(similarities) - 1) :
            FGeq(similarities[i].similarity_score,
                 similarities[i + 1].similarity_score)

\* A search whose two best entries have different scores and stand in the
\* catalog in the opposite order.
C2_Witness ==
    /\ find_done
    /\ Len(similarities) >= 2
    /\ FLess(similarities[2].similarity_score, similarities[1].similarity_score)
    /\ similarities[1].product_id > similarities[2].product_id

\* C3: every returned entry has similarity_score >= min_similarity, for every
\* min_similarity (also outside [0,1]); when no catalog entry reaches
\* min_similarity the result is the empty list and nothing is raised.
C3_ScoresReachThreshold ==
    find_done =>
        /\ \A i \in 1..Len(similarities) :
              FGeq(similarities[i].similarity_score, min_similarity)
        /\ (Qualifying = {} => similarities = <<>> /\ ~find_raised)

\* A search with a query over a catalog that holds vectors, none of which
\* reaches min_similarity.
C3_Witness ==
    /\ find_done
    /\ Len(query_embedding) > 0
    /\ \E i \in 1..Len(Products) : HasEmbedding(Products[i])
    /\ Qualifying = {}
    /\ similarities = <<>>
    /\ ~find_raised

\* C4: for every positive max_results at most max_results entries are
\* returned, whatever the catalog size and min_similarity.
C4_AtMostMaxResults ==
    find_done /\ max_results > 0 => Len(similarities) <= max_results

\* A search in which more entries qualify than max_results allows.
C4_Witness ==
    /\ find_done
    /\ ~find_raised
    /\ max_results > 0
    /\ Len(query_embedding) > 0
    /\ Cardinality(Qualifying) > max_results
    /\ Len(similarities) = max_results

\* C5: for every max_results <= 0 (zero and every negative integer) the
\* empty list is returned, even when catalog entries reach min_similarity.
C5_NonPositiveMaxResultsGivesEmpty ==
    find_done /\ max_results <= 0 => similarities = <<>>

\* C6: two entries with exactly the same score are returned in the order in
\* which they stand in the catalog (product_id is the catalog position).
C6_TiesKeepCatalogOrder ==
    find_done =>
        \A i, j \in 1..Len(similarities) :
            (i < j /\ similarities[i].similarity_score = similarities[j].similarity_score)
                => similarities[i].product_id < similarities[j].product_id

\* A search that returns two entries with the same score.
C6_Witness ==
    /\ find_done
    /\ \E i, j \in 1..Len(similarities) :
          /\ i < j
          /\ similarities[i].similarity_score = similarities[j].similarity_score

\* The catalog with the entries that have no usable vector removed.
\* The product has an 'embedding' key whose value is a non-empty list.
EmbeddingPresent(product) ==
    /\ "embedding" \in DOMAIN product
    /\ ~product.embedding.isnone
    /\ product.embedding.list # <<>>

WithoutMissingEmbeddings(db) ==
    IF "products" \in DOMAIN db
    THEN [products |-> SelectSeq(db.products, EmbeddingPresent)]
    ELSE db

\* C7: an entry with no 'embedding' key, or with an empty or None embedding,
\* never appears in the result and never makes the search raise: the
\* outcome is that of the search over the catalog without these entries.
C7_MissingEmbeddingsSkipped ==
    find_done =>
        /\ \A i \in 1..Len(similarities) :
              EmbeddingPresent(Products[similarities[i].product_id])
        /\ LET r == find_similar_products(query_embedding,
                        WithoutMissingEmbeddings(product_database),
                        min_similarity, max_results)
           IN similarities = r.list /\ find_raised = r.exc

\* A search that returns an entry from a catalog in which an entry without a
\* key, one with None and one with an empty list stand.
C7_Witness ==
    /\ find_done
    /\ ~find_raised
    /\ Len(similarities) >= 1
    /\ \E i \in 1..Len(Products) : "embedding" \notin DOMAIN Products[i]
    /\ \E i \in 1..Len(Products) :
          "embedding" \in DOMAIN Products[i] /\ ~Truthy(Products[i].embedding)


(***************************************************************************)
(* Claims about calculate_enhanced_similarity (checked under SpecScore)    *)
(***************************************************************************)
IsZeroVector(v) == \A i \in 1..Len(v) : v[i] = FZero

\* C8: calculate_enhanced_similarity returns exactly 0.0 and does not raise
\* in each degenerate case: the vectors differ in length, their common
\* length is not 50, or the weighted magnitude of either is zero (no
\* division by zero is performed).
C8_DegenerateScoreIsZero ==
    (/\ sim_done
     /\ \/ Len(sim_query) # Len(sim_product)
        \/ Len(sim_query) # 50
        \/ WeightedMagnitude(sim_query) = FZero
        \/ WeightedMagnitude(sim_product) = FZero)
    => sim_result = FZero /\ ~sim_raised

\* A call with two 50-vectors of which exactly the second is all zeros.
C8_Witness ==
    /\ sim_done
    /\ Len(sim_query) = 50
    /\ Len(sim_product) = 50
    /\ ~IsZeroVector(sim_query)
    /\ IsZeroVector(sim_product)
    /\ WeightedMagnitude(sim_product) = FZero
    /\ sim_result = FZero

\* C9: the weighted score is symmetric: for all pairs of 50-element vectors
\* a and b, calculate_enhanced_similarity(a, b) equals
\* calculate_enhanced_similarity(b, a).
C9_Symmetric ==
    sim_done /\ Len(sim_query) = 50 /\ Len(sim_product) = 50
    => sim_result = calculate_enhanced_similarity(sim_product, sim_query)

FOne == FInt(1)

\* C10 as stated: for every 50-element vector v that is not all zeros
\* calculate_enhanced_similarity(v, v) is 1.0, and no other vector scores
\* higher against v than v itself.
C10_SelfSimilarityIsMaximal ==
    sim_done /\ Len(sim_query) = 50 /\ Len(sim_product) = 50
             /\ ~IsZeroVector(sim_query)
    => /\ sim_query = sim_product => sim_result = FOne
       /\ FGeq(calculate_enhanced_similarity(sim_query, sim_query), sim_result)

\* One unit of roundoff is 2^-MantBits.  1 - 3 and 1 + 4 units are floats.
OneMinus3u == Round(2^MantBits - 3, -MantBits)

OnePlus4u == Round(2^MantBits + 4, -MantBits)

\* The number of non-zero entries of v.
NonZeroCount(v) == Cardinality({i \in 1..Len(v) : v[i] # FZero})

\* x <= num / den, for a float x and integers num >= 0, den > 0.
FLeqRatio(x, num, den) ==
    IF x[1] <= 0 THEN TRUE
    ELSE IF x[2] >= 0 THEN x[1] * 2^x[2] * den <= num
    ELSE IF x[2] < -20 THEN num > 0
    ELSE x[1] * den <= num * 2^(-x[2])

\* C10 as amended: calculate_enhanced_similarity(v, v) is 1.0 up to rounding,
\* between 1 - 3 and 1 + 4 units of roundoff; and no vector scores more
\* than rounding error above 1.0 against v: with at most K non-zero entries
\* in either vector the score is at most 1 / (1 - (2K + 6) units).
C10_SelfSimilarityNearOne ==
    sim_done /\ Len(sim_query) = 50 /\ Len(sim_product) = 50
             /\ ~IsZeroVector(sim_query)
    => /\ sim_query = sim_product
          => FGeq(sim_result, OneMinus3u) /\ FGeq(OnePlus4u, sim_result)
       /\ LET K == Max(NonZeroCount(sim_query), NonZeroCount(sim_product))
          IN (2 * K + 6 < 2^MantBits)
             => FLeqRatio(sim_result, 2^MantBits, 2^MantBits - (2 * K + 6))

\* A call with the same non-zero vector twice that does not return 1.0.
C10_Witness ==
    /\ sim_done
    /\ Len(sim_query) = 50
    /\ sim_query = sim_product
    /\ ~IsZeroVector(sim_query)
    /\ sim_result # FOne


(***************************************************************************)
(* Claims about the extraction (checked under SpecExtract)                 *)
(***************************************************************************)
\* C1: for every input image (any width, height and mode, a zero-pixel
\* image and an image that makes an internal step raise included)
\* extract_visual_features_from_image returns a list of exactly 50 numbers,
\* and generate_query_embedding returns exactly 50 numbers for every byte
\* string, decodable or not.
C1_AlwaysFiftyFeatures ==
    extract_done
    => /\ Len(features) = 50
       /\ \A k \in 1..Len(features) :
             features[k].value \in {"computed", "0.1", "0.05", "0.33"}

\* A direct call on an image with pixels whose feature groups were all
\* appended and then cut to length.
C1_Witness ==
    /\ extract_done
    /\ image_data = "none"
    /\ ~extract_raised
    /\ image.width > 0
    /\ image.height > 0
    /\ Len(features) = 50
    /\ features[50].group = "shape"


\* The extraction returned the features computed from the pixels.
ExtractedFromPixels == extract_done /\ ~extract_raised /\ Len(features) > 0
                       /\ features[1].group = "rgb_stats"

\* lo <= w <= hi
FBetween(w, lo, hi) == FGeq(w, lo) /\ FGeq(hi, w)

IsColourFeature(f) ==
    \/ f.group \in {"rgb_stats", "histogram"}
    \/ f.group = "dominance" /\ FeatureName(f) # "aspect_ratio"

IsStructureFeature(f) ==
    \/ f.group \in {"edge", "texture", "directional", "shape"}
    \/ FeatureName(f) = "aspect_ratio"

\* C11: the weight table is index-aligned with the layout of the extracted
\* vector: every colour feature (RGB statistics, histograms, dominance,
\* temperature, saturation, colour complexity) has a weight in 0.05..0.2,
\* brightness and contrast have weight 0.2, every edge, texture,
\* directional and shape feature and the aspect ratio has a weight in
\* 4.0..8.0, and the aspect ratio has the weight 8.0.
C11_WeightsAlignedWithLayout ==
    ExtractedFromPixels =>
        \A k \in 1..Len(features) :
            /\ IsColourFeature(features[k])
                  => FBetween(WeightOf(k - 1), FLit(1, 20), FLit(1, 5))
            /\ features[k].group = "brightness"
                  => WeightOf(k - 1) = FLit(1, 5)
            /\ IsStructureFeature(features[k])
                  => FBetween(WeightOf(k - 1), FInt(4), FInt(8))
            /\ FeatureName(features[k]) = "aspect_ratio"
                  => WeightOf(k - 1) = FInt(8)


\* C12: for an image with an empty pixel set (zero pixels after the
\* preprocessing) extract_visual_features_from_image returns the fallback
\* vector: 50 values, each 0.1.
C12_EmptyPixelSetGivesFallback ==
    extract_done /\ image_data = "none" /\ image.width * image.height = 0
    => /\ Len(features) = 50
       /\ \A k \in 1..Len(features) : features[k].value = "0.1"


(***************************************************************************)
(* Claims about the search handlers (checked under SpecSearch)             *)
(***************************************************************************)
\* C13: bytes that cannot be decoded are reported as a failure: the handler
\* of a request whose image bytes are corrupt, and which reaches the local
\* branch, answers 400 'Failed to process image' with no result list; no
\* vector is ranked for it.
C13_CorruptBytesReported ==
    \A c \in DOMAIN pc :
        (/\ pc[c] = "done"
         /\ requests[c].image_data = "corrupt"
         /\ DatabaseLoaded(product_database))
        => /\ responses[c].status = 400
           /\ responses[c].detail = FailedToProcess(requests[c])
           /\ responses[c].results = <<>>


(***************************************************************************)
(* Claims about the catalog builder (checked under SpecExtract)            *)
(***************************************************************************)
\* The feature an entry holds: the variable of the source, and for the
\* features of a list-valued group the place in the list.
FeatureKey(f) ==
    <<FeatureName(f), IF f.group \in {"dominance", "shape"} THEN 1 ELSE f.place>>

\* C14: catalog vectors and query vectors are index-compatible: for the
\* same image the catalog builder and the query-time extractor put the same
\* feature at each of the 50 indices and return the same vector.
C14_BuilderAndExtractorAgree ==
    (extract_done /\ build_done /\ image_data = "none")
    => /\ Len(features) = Len(catalog_features)
       /\ \A k \in 1..Len(features) :
             /\ FeatureKey(features[k]) = FeatureKey(catalog_features[k])
             /\ features[k].value = catalog_features[k].value


\* C15: extraction has no side effect on its argument: a call of
\* extract_visual_features_from_image(image) leaves the caller's image with
\* the width, height and mode it had, also when a side exceeds 224.
C15_ExtractionLeavesImage ==
    [][(~extract_done /\ extract_done' /\ image_data = "none")
          => image' = image]_vars


(***************************************************************************)
(* Claims about the legacy extractor (checked under SpecLegacy)            *)
(***************************************************************************)
\* What the legacy generate_query_embedding returns when no other call runs.
LegacyAlone(bytes) ==
    IF bytes = "corrupt" THEN FallbackFeatures
    ELSE LegacyFeatures \o
         Draws(Seeded(random_seed(bytes)), FeatureCount - LegacyComputed)

\* C16: generate_query_embedding returns the same 50 values for the same
\* bytes on every call, also when another call interleaves with it: every
\* finished call has returned what the call returns when it runs alone.
C16_NoCrossQueryInterference ==
    \A w \in DOMAIN worker_pc :
       worker_pc[w] = "done" => worker_features[w] = LegacyAlone(worker_bytes[w])


(***************************************************************************)
(* Claims about the preprocessing step (checked under SpecExtract)         *)
(***************************************************************************)
FitsThumbnail(img) == img.width <= ThumbnailSide /\ img.height <= ThumbnailSide

\* C17: after the preprocessing step the image the features are computed
\* from is at most 224 wide and 224 high and in RGB mode, and a caller's
\* image that was at most 224 x 224 has kept its width and height.
C17_PreprocessedImageIsCanonical ==
    [][(~extract_done /\ extract_done' /\ rgb_image' # NoImage)
          => /\ FitsThumbnail(rgb_image')
             /\ rgb_image'.mode = "RGB"
             /\ FitsThumbnail(image)
                   => /\ rgb_image'.width = image.width
                      /\ rgb_image'.height = image.height]_vars

\* A call that shrank a 448 x 300 greyscale image to 224 x 150 RGB.
C17_Witness ==
    /\ extract_done
    /\ image_path.width = 448 /\ image_path.height = 300
    /\ image_path.mode = "L"
    /\ rgb_image.width = ThumbnailSide /\ rgb_image.height = 150
    /\ rgb_image.mode = "RGB"


\* The names of the features the returned list holds.
ReturnedNames == {FeatureName(features[k]) : k \in 1..Len(features)}

\* C18: for an image with at least one pixel the computed groups hold
\* exactly 50 values: the returned list has no filler and holds every
\* feature of the shape group, the bottom edge-concentration ratio and the
\* average per-channel range among them.
C18_ShapeGroupSurvives ==
    (extract_done /\ ~extract_raised /\ rgb_image # NoImage
        /\ rgb_image.width * rgb_image.height > 0)
    => /\ \A k \in 1..Len(ShapeNames) : ShapeNames[k] \in ReturnedNames
       /\ "pad" \notin ReturnedNames


(***************************************************************************)
(* Claims about solid-colour images (checked under SpecExtract)            *)
(***************************************************************************)
\* The value the feature f holds when all pixels of the image are equal:
\* every gradient, every block deviation and every channel deviation the
\* source computes is then 0; a literal stays what it is.
SolidValue(f) == IF f.value = "computed" THEN "0" ELSE f.value

\* edge_mean, edge_std, edge_max, texture_variance, edge_density and the
\* three channel deviations.
IsSolidZeroEntry(f) ==
    \/ f.group = "edge" /\ f.place <= 3
    \/ f.group = "texture" /\ f.place = 1
    \/ FeatureName(f) = "edge_density"
    \/ f.group = "rgb_stats" /\ f.place >= 4

\* C19: for a solid-colour image of any width and height the returned
\* vector has an edge mean, edge deviation, edge maximum, texture variance,
\* edge density and channel deviations, and they are all 0.
C19_SolidColourHasZeroEdges ==
    (extract_done /\ image_data = "none"
        /\ image_path.width * image_path.height > 0)
    => /\ \E k \in 1..Len(features) : features[k].group = "edge"
       /\ \A k \in 1..Len(features) :
             IsSolidZeroEntry(features[k]) => SolidValue(features[k]) = "0"


(***************************************************************************)
(* Claims about the shared catalog (checked under SpecSearch)              *)
(***************************************************************************)
\* The responses a handler may give to req when it is the only request the
\* server ever handles on the catalog db.
AloneResponses(db, req, index) ==
    IF BeforeAwait(db, req).status # 0 THEN {BeforeAwait(db, req)}
    ELSE AfterAwait(db, req, index)

\* C20: no step of a search handler changes the loaded catalog, and every
\* search that finishes, whatever other searches are in flight, answers
\* what it answers alone on that catalog.
C20_CatalogIsReadOnly ==
    [][/\ product_database' = product_database
       /\ \A c \in Clients :
             (pc[c] # "done" /\ pc'[c] = "done")
             => responses'[c] \in AloneResponses(product_database',
                                                 requests[c], pinecone_index)
      ]_vars

\* Both clients have been answered from the catalog with ranked products,
\* the second while the first was between its await and its response.
C20_Witness ==
    /\ \A c \in Clients :
          /\ pc[c] = "done"
          /\ responses[c].status = 200
          /\ Len(responses[c].results) > 0
    /\ requests[1] # requests[2]


(***************************************************************************)
(* Claims about calculate_cosine_similarity (checked under SpecScore)      *)
(***************************************************************************)
\* C21: the unweighted scorer returns exactly 0.0, without raising, when the
\* two lists differ in length or one of them has zero magnitude.
C21_CosineDegenerateIsZero ==
    (/\ cos_done
     /\ \/ Len(sim_query) # Len(sim_product)
        \/ IsZeroVector(sim_query)
        \/ IsZeroVector(sim_product))
    => cos_result = FZero /\ ~cos_raised


(***************************************************************************)
(* Claims about the fallback vector (checked under SpecExtract)            *)
(***************************************************************************)
\* C22: for every image at least 3 wide and 3 high, portrait, square or
\* landscape, every list lookup of the extraction is within bounds, nothing
\* is raised and entries 0..2 of the result are the channel means.
C22_NoFallbackForProperImages ==
    (extract_done /\ image_data = "none"
        /\ image_path.width >= 3 /\ image_path.height >= 3)
    => /\ ~extract_raised
       /\ \A k \in 1..3 : /\ features[k].group = "rgb_stats"
                          /\ features[k].place = k
                          /\ features[k].value = "computed"


(***************************************************************************)
(* Claims about the best matches (checked under SpecRank)                  *)
(***************************************************************************)
\* The catalog positions of the returned entries.
ReturnedIds == {similarities[k].product_id : k \in 1..Len(similarities)}

\* min(max_results, Q) entries are returned, and no qualifying entry left
\* out scores above the last returned one.
ReturnsBestMatches ==
    /\ Len(similarities) = Min(max_results, Cardinality(Qualifying))
    /\ \A i \in Qualifying \ ReturnedIds :
          Len(similarities) > 0
          => FGeq(similarities[Len(similarities)].similarity_score,
                  ScoreOfEntry(i))

GradientCount == EdgeResponseCount(rgb_image.width, rgb_image.height)

\* C24: the edge density is the number of gradient magnitudes above 30
\* divided by the number of gradient magnitudes computed, so it is 1 when
\* every magnitude exceeds 30.
C24_EdgeDensityIsFractionOfGradients ==
    (extract_done /\ ~extract_raised /\ edge_density # NotComputed
        /\ GradientCount > 0)
    => /\ edge_density.den = GradientCount
       /\ edge_density.num = GradientCount => edge_density.num = edge_density.den


\* C25: every complete 8 x 8 block with its corner at multiples of 8 gives
\* one local variance: an image W wide and H high gives
\* floor(W / 8) * floor(H / 8) of them.
C25_EveryCompleteBlockCounts ==
    (extract_done /\ local_variances # -1)
    => local_variances = (rgb_image.width \div block_size)
                           * (rgb_image.height \div block_size)


(***************************************************************************)
(* Claims about simple_histogram (checked under SpecHist)                  *)
(***************************************************************************)
RECURSIVE SumTo(_, _)
SumTo(xs, n) == IF n = 0 THEN 0 ELSE SumTo(xs, n - 1) + xs[n]

\* The float x >= 0 as a multiple of 2^-HistScale.
HistScale == 2 * MantBits + 4

Scaled(x) == x[1] * 2^(x[2] + HistScale)

ScaledNorm == [b \in 1..Len(hist_norm) |-> Scaled(hist_norm[b])]

\* Every value is counted once, in the bin floor(value / 51) clamped to 4.
CountsEveryValueOnce ==
    /\ Len(hist) = 5
    /\ \A b \in 1..5 :
          hist[b] = Cardinality({k \in 1..Len(hist_values) :
                                    Min(hist_values[k] \div 51, 4) = b - 1})
    /\ SumTo(hist, 5) = Len(hist_values)

\* C26 as stated: every value in 0..255 is counted in exactly one bin, the
\* bin floor(value / 51) clamped to 4, the five counts sum to the number of
\* values and the five normalised entries sum to 1.
C26_HistogramSumsToOne ==
    hist_done
    => /\ CountsEveryValueOnce
       /\ Len(hist_values) > 0
             => SumTo(ScaledNorm, 5) = 2^HistScale

\* C26, amended: the same, the five normalised entries summing to 1 up to
\* the rounding of the five divisions (half a unit in the last place each).
C26_HistogramSumsToNearlyOne ==
    hist_done
    => /\ CountsEveryValueOnce
       /\ Len(hist_values) > 0
             => Abs(SumTo(ScaledNorm, 5) - 2^HistScale)
                   <= 5 * 2^(HistScale - MantBits - 1)

\* A histogram of three values of which 255 went to the last bin and whose
\* normalised entries do not sum to 1 exactly.
C26_Witness ==
    /\ hist_done
    /\ Len(hist_values) = 3
    /\ \E k \in 1..3 : hist_values[k] = 255
    /\ hist[5] >= 1
    /\ SumTo(ScaledNorm, 5) # 2^HistScale


(***************************************************************************)
(* Claims about the edge-concentration loop (checked under SpecExtract)    *)
(***************************************************************************)
\* C27: for every interior pixel (x, y) the edge-concentration loop
\* compares with 30 the magnitude the edge-detection loop appended for that
\* same pixel.
C27_ConcentrationReadsOwnGradient ==
    (extract_done /\ ~extract_raised /\ edge_density # NotComputed)
    => \A y \in 1..(rgb_image.height - 2) : \A x \in 1..(rgb_image.width - 2) :
          ConcentrationIndex(x, y, rgb_image.width)
             = GradientIndex(x, y, rgb_image.width)


(***************************************************************************)
(* Claims about /health (checked under SpecHealth)                         *)
(***************************************************************************)
\* C28: whatever the catalog holds, /health says 'healthy' exactly when it
\* says database_loaded, and when it says database_loaded neither the
\* search handlers nor /categories answer 503.
C28_HealthIsConsistent ==
    health_response # NoResponse
    => /\ health_response.status = "healthy" <=> health_response.database_loaded
       /\ health_response.database_loaded
             => /\ categories_response.status # 503
                /\ \A c \in Clients : responses[c].status # 503


(***************************************************************************)
(* Claims about the Pinecone service (checked under SpecPinecone)          *)
(***************************************************************************)
\* C29: after any sequence of initialize() calls the index is set only if
\* the model is set, and after a call that returned False the index is not
\* set, so that a search with use_pinecone takes the local branch.
C29_InitializeIsAllOrNothing ==
    /\ pinecone_index => pinecone_model
    /\ initialize_result = "false" => ~pinecone_index


(***************************************************************************)
(* Claims about the ranking parameters (checked under SpecSearch)          *)
(***************************************************************************)
\* 0 <= min_similarity <= 1 and 1 <= max_results <= 50.
InRange(req) ==
    /\ FGeq(req.min_similarity, FZero)
    /\ FGeq(FInt(1), req.min_similarity)
    /\ req.max_results >= 1
    /\ req.max_results <= 50

\* C30: on both endpoints a request whose min_similarity or max_results is
\* out of range is rejected without a search: every request answered with
\* a ranking had 0 <= min_similarity <= 1 and 1 <= max_results <= 50.
C30_ParametersConstrained ==
    \A c \in Clients :
       (pc[c] = "done" /\ responses[c].status = 200) => InRange(requests[c])

=============================================================================
